---- MODULE Spec2Model ----
(***************************************************************************)
(* The floating IP resource of the Oxide Terraform provider                *)
(* (internal/provider/resource_floating_ip.go): the persisted state record,*)
(* the remote platform's floating IPs, and the lifecycle handlers Create,  *)
(* Read, Update, Delete and ImportState as the orchestrator drives them.   *)
(***************************************************************************)
EXTENDS Integers, Sequences, FiniteSets, TLC

VARIABLES
    state,      \* the persisted state record of the resource, or NullState
    remote,     \* the floating IPs that exist on the remote platform
    nextId,     \* the remote platform's identity allocator
    pending,    \* the handler the orchestrator must invoke next, if any
    last        \* the last handler invocation: request, remote call, response

vars == <<state, remote, nextId, pending, last>>

----------------------------------------------------------------------------
(* Bounds *)

\* Identities the remote platform hands out in one behaviour.
MaxObjects == 2

----------------------------------------------------------------------------
(* Values of the framework's types.String *)

Null == "<null>"
Unknown == "<unknown>"

\* types.String.ValueString: the empty string for a null or unknown value.
ValueString(v) == IF v \in {Null, Unknown} THEN "" ELSE v

\* types.StringValue: a known value holding the given string.
StringValue(s) == s

\* An absent state (tfsdk.State with a null Raw value), an absent object.
NullState == [null |-> TRUE]

----------------------------------------------------------------------------
(* The configuration surface *)

Names == {"lb-vip", "web-vip"}
Descriptions == {"load balancer VIP", "web VIP"}
\* A project reference is a name or an id (oxide.NameOrId).
ProjectRefs == {"pid-1", "proj-2"}
ConfigIPs == {Null, "10.0.0.7"}
PoolRefs == {Null, "pool-a"}
\* A timeout is absent, a duration string, or a string that is no duration.
TimeoutVals == {Null, "30s", "bad"}
TimeoutNames == {"create", "read", "update", "delete"}

NoTimeouts == [create |-> Null, read |-> Null, update |-> Null, delete |-> Null]

\* The timeouts blocks a configuration may carry: every operation read by
\* a handler is once absent, once a duration and once no duration.
TimeoutBlocks ==
    {NoTimeouts,
     [create |-> "30s", read |-> "bad", update |-> Null, delete |-> Null],
     [create |-> "bad", read |-> Null, update |-> Null, delete |-> "30s"],
     [create |-> Null, read |-> "30s", update |-> "30s", delete |-> "bad"]}

\* The declared (user-supplied) attributes of the schema.
AttrValues ==
    [Name |-> Names, Description |-> Descriptions, ProjectID |-> ProjectRefs,
     IP |-> ConfigIPs, IPPoolID |-> PoolRefs, Timeouts |-> TimeoutBlocks]

BaseConfig ==
    [Name |-> "lb-vip", Description |-> "load balancer VIP", ProjectID |-> "pid-1",
     IP |-> Null, IPPoolID |-> Null, Timeouts |-> NoTimeouts]

\* The configurations applied: the base one and those one attribute away.
Configs ==
    {[BaseConfig EXCEPT ![a] = v] : <<a, v>> \in
        UNION {{<<a, v>> : v \in AttrValues[a]} : a \in DOMAIN AttrValues}}

\* The plan of a configuration: the declared attributes as configured
\* (a null value for an attribute left out), the Computed attributes unknown.
PlanOf(cfg) ==
    [ID |-> Unknown, Name |-> cfg.Name, Description |-> cfg.Description,
     ProjectID |-> cfg.ProjectID, IPPoolID |-> cfg.IPPoolID, IP |-> cfg.IP,
     TimeCreated |-> Unknown, TimeModified |-> Unknown, Timeouts |-> cfg.Timeouts]

----------------------------------------------------------------------------
(* The remote platform behind oxide.Client *)

NoErr == "none"
\* What a remote call can meet on its way: nothing, a server failure, the
\* deadline elapsing before the request is served, the orchestrator
\* cancelling the context, the deadline elapsing after the platform served
\* a Delete (the reply is lost).
Faults == {"none", "ServerError", "DeadlineExceeded", "Canceled", "LostReply"}

\* error.Error() of the client's errors.
ErrorString(err) ==
    CASE err = "NotFound" -> "404 Not Found"
      [] err = "ServerError" -> "500 Internal Server Error"
      [] err = "InvalidRequest" -> "400 Bad Request"
      [] err = "DeadlineExceeded" -> "context deadline exceeded"
      [] err = "Canceled" -> "context canceled"
      [] OTHER -> ""

FaultError(fault) == IF fault = "LostReply" THEN "DeadlineExceeded" ELSE fault

\* The platform resolves a name-or-id reference to an identity.
ProjectIdOf(ref) == IF ref = "proj-2" THEN "pid-2" ELSE ref
PoolIdOf(ref) == IF ref = "" THEN "poolid-default" ELSE "poolid-a"
AssignIp(ip) == IF ip = "" THEN "10.0.0.1" ELSE ip
IdOf(n) == "fip-" \o ToString(n)
Instances == {"inst-1"}

\* time.Time.String() of a timestamp of the platform's clock.
TimeString(t) == "2023-06-01 00:00:0" \o ToString(t) \o " +0000 UTC"

Lookup(id) == {o \in remote : o.Id = id}

\* The answer of a remote call: the error, the object, the platform after it.
Answer(err, obj, rem, nid) ==
    [err |-> err, obj |-> obj, remote |-> rem, nextId |-> nid]

\* The platform's clock ticks with every identity it hands out.
Tick(n) == 2 * n

NewObject(params) ==
    [Id |-> IdOf(nextId), Name |-> params.Body.Name,
     Description |-> params.Body.Description,
     ProjectId |-> ProjectIdOf(params.Project),
     Ip |-> AssignIp(params.Body.Ip), IpPoolId |-> PoolIdOf(params.Body.Pool),
     InstanceId |-> Null, TimeCreated |-> Tick(nextId), TimeModified |-> Tick(nextId)]

\* client.FloatingIpCreate: a call that fails creates nothing.
FloatingIpCreate(params, fault) ==
    IF fault = "none"
    THEN Answer(NoErr, NewObject(params), remote \cup {NewObject(params)}, nextId + 1)
    ELSE Answer(FaultError(fault), NullState, remote, nextId)

\* client.FloatingIpView
FloatingIpView(params, fault) ==
    IF fault # "none"
    THEN Answer(FaultError(fault), NullState, remote, nextId)
    ELSE IF Lookup(params.FloatingIp) = {}
    THEN Answer("NotFound", NullState, remote, nextId)
    ELSE Answer(NoErr, CHOOSE o \in Lookup(params.FloatingIp) : TRUE,
                remote, nextId)

\* client.FloatingIpDelete: the platform refuses to delete an attached address.
FloatingIpDelete(params, fault) ==
    IF fault \notin {"none", "LostReply"}
    THEN Answer(FaultError(fault), NullState, remote, nextId)
    ELSE IF Lookup(params.FloatingIp) = {}
    THEN Answer(IF fault = "none" THEN "NotFound" ELSE FaultError(fault),
                NullState, remote, nextId)
    ELSE IF \E o \in Lookup(params.FloatingIp) : o.InstanceId # Null
    THEN Answer(IF fault = "none" THEN "InvalidRequest" ELSE FaultError(fault),
                NullState, remote, nextId)
    ELSE Answer(FaultError(fault), NullState,
                remote \ Lookup(params.FloatingIp), nextId)

\* is404: the error is the platform's not-found answer.
is404(err) == err = "NotFound"

----------------------------------------------------------------------------
(* Diagnostics and timeouts *)

ErrorDiag(summary, detail) ==
    [severity |-> "Error", summary |-> summary, detail |-> detail]

\* diag.Diagnostics.HasError
HasError(diags) == \E i \in 1..Len(diags) : diags[i].severity = "Error"

\* The default duration of an operation, in seconds.
defaultTimeout == 600

\* time.ParseDuration, in seconds; -1 when the string is no duration.
ParseDuration(s) == IF s = "30s" THEN 30 ELSE -1

\* timeouts.Value.Create/Read/Delete(ctx, defaultTimeout()): the configured
\* duration, the default when none is configured, a diagnostic when the
\* configured string is no duration.
ResolveTimeout(timeouts, name) ==
    IF timeouts[name] \in {Null, Unknown}
    THEN [duration |-> defaultTimeout, diags |-> <<>>]
    ELSE IF ParseDuration(ValueString(timeouts[name])) < 0
    THEN [duration |-> defaultTimeout,
          diags |-> <<ErrorDiag("Timeout Cannot Be Parsed", name)>>]
    ELSE [duration |-> ParseDuration(ValueString(timeouts[name])), diags |-> <<>>]

\* What one handler invocation did: the state it leaves in the response,
\* its diagnostics, the deadline it set, the remote calls it issued and the
\* answer it got.
Outcome(st, diags, timeout, calls, ans) ==
    [State |-> st, Diagnostics |-> diags, Timeout |-> timeout, Calls |-> calls,
     Answer |-> ans]

\* An invocation that issued no remote call leaves the platform alone.
NoAnswer == Answer(NoErr, NullState, remote, nextId)

----------------------------------------------------------------------------
(* The handlers *)

CreateParams(plan) ==
    [Project |-> ValueString(plan.ProjectID),
     Body |-> [Description |-> ValueString(plan.Description),
               Ip |-> ValueString(plan.IP),
               Name |-> ValueString(plan.Name),
               Pool |-> ValueString(plan.IPPoolID)]]

\* A Create that keeps the plan in the response when the remote call failed.
CreateMapKeepsPlanOnError(plan, ans) ==
    IF ans.err # NoErr
    THEN [State |-> plan,
          Diagnostics |-> <<ErrorDiag("Error creating floatingIp",
                                      "API error: " \o ErrorString(ans.err))>>]
    ELSE [State |-> [plan EXCEPT
                        !.ID = StringValue(ans.obj.Id),
                        !.TimeCreated = StringValue(TimeString(ans.obj.TimeCreated)),
                        !.TimeModified = StringValue(TimeString(ans.obj.TimeModified))],
          Diagnostics |-> <<>>]

\* A Create that takes the project from the created object, as Read does.
CreateMapEchoesProject(plan, ans) ==
    IF ans.err # NoErr
    THEN [State |-> NullState,
          Diagnostics |-> <<ErrorDiag("Error creating floatingIp",
                                      "API error: " \o ErrorString(ans.err))>>]
    ELSE [State |-> [plan EXCEPT
                        !.ID = StringValue(ans.obj.Id),
                        !.ProjectID = StringValue(ans.obj.ProjectId),
                        !.TimeCreated = StringValue(TimeString(ans.obj.TimeCreated)),
                        !.TimeModified = StringValue(TimeString(ans.obj.TimeModified))],
          Diagnostics |-> <<>>]

\* Create, after the remote call answered.
\* A Create that drops the remote error instead of reporting it.
CreateMapSwallowsError(plan, ans) ==
    IF ans.err # NoErr
    THEN [State |-> NullState, Diagnostics |-> <<>>]
    ELSE [State |-> [plan EXCEPT
                        !.ID = StringValue(ans.obj.Id),
                        !.TimeCreated = StringValue(TimeString(ans.obj.TimeCreated)),
                        !.TimeModified = StringValue(TimeString(ans.obj.TimeModified))],
          Diagnostics |-> <<>>]

CreateMap(plan, ans) ==
    IF ans.err # NoErr
    THEN [State |-> NullState,
          Diagnostics |-> <<ErrorDiag("Error creating floatingIp",
                                      "API error: " \o ErrorString(ans.err))>>]
    ELSE [State |-> [plan EXCEPT
                        !.ID = StringValue(ans.obj.Id),
                        !.TimeCreated = StringValue(TimeString(ans.obj.TimeCreated)),
                        !.TimeModified = StringValue(TimeString(ans.obj.TimeModified))],
          Diagnostics |-> <<>>]

\* A Create that reports the timeout it cannot parse and goes on to the
\* remote call under the default deadline.
CreateHandlerCallsAnyway(plan, fault) ==
    LET t == ResolveTimeout(plan.Timeouts, "create")
        params == CreateParams(plan)
        ans == FloatingIpCreate(params, fault)
    IN  Outcome(IF HasError(t.diags) THEN NullState ELSE CreateMap(plan, ans).State,
                t.diags \o CreateMap(plan, ans).Diagnostics, t.duration,
                <<[api |-> "FloatingIpCreate", params |-> params]>>, ans)

\* A Create that tries the remote call once more when it failed.
CreateHandlerRetries(plan, fault) ==
    LET t == ResolveTimeout(plan.Timeouts, "create")
        params == CreateParams(plan)
        first == FloatingIpCreate(params, fault)
        ans == IF first.err = NoErr THEN first ELSE FloatingIpCreate(params, "none")
        call == [api |-> "FloatingIpCreate", params |-> params]
    IN  IF HasError(t.diags)
        THEN Outcome(NullState, t.diags, 0, <<>>, NoAnswer)
        ELSE Outcome(CreateMap(plan, ans).State, CreateMap(plan, ans).Diagnostics,
                     t.duration,
                     IF first.err = NoErr THEN <<call>> ELSE <<call, call>>, ans)

\* floatingIpResource.Create: resp.State starts out null.
CreateHandler(plan, fault) ==
    LET t == ResolveTimeout(plan.Timeouts, "create")
        params == CreateParams(plan)
        ans == FloatingIpCreate(params, fault)
    IN  IF HasError(t.diags)
        THEN Outcome(NullState, t.diags, 0, <<>>, NoAnswer)
        ELSE Outcome(CreateMap(plan, ans).State, CreateMap(plan, ans).Diagnostics,
                     t.duration,
                     <<[api |-> "FloatingIpCreate", params |-> params]>>, ans)

\* A View keyed by the record's name.
ViewParamsByName(st) == [FloatingIp |-> ValueString(st.Name)]

ViewParams(st) == [FloatingIp |-> ValueString(st.ID)]

\* The record as Read overwrites it from the object the platform returned.
\* A refresh that rebuilds the record from the object alone, losing what the
\* object does not carry.
RefreshedDropsTimeouts(st, obj) ==
    [st EXCEPT
        !.Description = StringValue(obj.Description),
        !.ID = StringValue(obj.Id),
        !.Name = StringValue(obj.Name),
        !.IP = StringValue(obj.Ip),
        !.IPPoolID = StringValue(obj.IpPoolId),
        !.ProjectID = StringValue(obj.ProjectId),
        !.TimeCreated = StringValue(TimeString(obj.TimeCreated)),
        !.TimeModified = StringValue(TimeString(obj.TimeModified)),
        !.Timeouts = NoTimeouts]

Refreshed(st, obj) ==
    [st EXCEPT
        !.Description = StringValue(obj.Description),
        !.ID = StringValue(obj.Id),
        !.Name = StringValue(obj.Name),
        !.IP = StringValue(obj.Ip),
        !.IPPoolID = StringValue(obj.IpPoolId),
        !.ProjectID = StringValue(obj.ProjectId),
        !.TimeCreated = StringValue(TimeString(obj.TimeCreated)),
        !.TimeModified = StringValue(TimeString(obj.TimeModified))]

\* A Read that reports not-found as an error and keeps the record.
ReadMapKeepsOnNotFound(st, ans) ==
    IF ans.err # NoErr
    THEN [State |-> st,
          Diagnostics |-> <<ErrorDiag("Unable to read floatingIp:",
                                      "API error: " \o ErrorString(ans.err))>>]
    ELSE [State |-> Refreshed(st, ans.obj), Diagnostics |-> <<>>]

\* A Read that removes the record on every error.
ReadMapRemovesOnAnyError(st, ans) ==
    IF ans.err # NoErr
    THEN [State |-> NullState,
          Diagnostics |-> IF is404(ans.err) THEN <<>>
                          ELSE <<ErrorDiag("Unable to read floatingIp:",
                                           "API error: " \o ErrorString(ans.err))>>]
    ELSE [State |-> Refreshed(st, ans.obj), Diagnostics |-> <<>>]

\* A Read whose diagnostic does not carry the error's message.
ReadMapDropsMessage(st, ans) ==
    IF ans.err # NoErr
    THEN IF is404(ans.err)
         THEN [State |-> NullState, Diagnostics |-> <<>>]
         ELSE [State |-> st,
               Diagnostics |-> <<ErrorDiag("Unable to read floatingIp:",
                                           "API error")>>]
    ELSE [State |-> Refreshed(st, ans.obj), Diagnostics |-> <<>>]

\* Read, after the remote call answered: the record is removed on
\* not-found, kept on another error, overwritten from the object otherwise.
ReadMap(st, ans) ==
    IF ans.err # NoErr
    THEN IF is404(ans.err)
         THEN [State |-> NullState, Diagnostics |-> <<>>]
         ELSE [State |-> st,
               Diagnostics |-> <<ErrorDiag("Unable to read floatingIp:",
                                           "API error: " \o ErrorString(ans.err))>>]
    ELSE [State |-> Refreshed(st, ans.obj), Diagnostics |-> <<>>]

\* floatingIpResource.Read: resp.State starts out as the prior state.
ReadHandler(st, fault) ==
    LET t == ResolveTimeout(st.Timeouts, "read")
        params == ViewParams(st)
        ans == FloatingIpView(params, fault)
    IN  IF HasError(t.diags)
        THEN Outcome(st, t.diags, 0, <<>>, NoAnswer)
        ELSE Outcome(ReadMap(st, ans).State, ReadMap(st, ans).Diagnostics,
                     t.duration,
                     <<[api |-> "FloatingIpView", params |-> params]>>, ans)

\* An Update that accepts the plan without a word.
UpdateHandlerSilent(st, plan) ==
    Outcome([plan EXCEPT !.ID = st.ID, !.TimeCreated = st.TimeCreated,
                         !.TimeModified = st.TimeModified],
            <<>>, 0, <<>>, NoAnswer)

\* An Update that saves the plan, its Computed attributes unknown.
UpdateHandlerSavesPlan(st, plan) ==
    Outcome(plan,
            <<ErrorDiag("Error updating floatingIp",
                        "the oxide API currently does not support updating floatingIps")>>,
            0, <<>>, NoAnswer)

\* floatingIpResource.Update: resp.State starts out as the prior state.
UpdateHandler(st, plan) ==
    Outcome(st,
            <<ErrorDiag("Error updating floatingIp",
                        "the oxide API currently does not support updating floatingIps")>>,
            0, <<>>, NoAnswer)

DeleteParams(st) == [FloatingIp |-> ValueString(st.ID)]

\* A Delete that reports every error, not-found included.
DeleteMapReportsNotFound(st, ans) ==
    IF ans.err # NoErr
    THEN <<ErrorDiag("Unable to delete floatingIp:",
                     "API error: " \o ErrorString(ans.err))>>
    ELSE <<>>

\* Delete, after the remote call answered: an error other than not-found
\* is the only one reported.
DeleteMap(st, ans) ==
    IF ans.err # NoErr /\ ~is404(ans.err)
    THEN <<ErrorDiag("Unable to delete floatingIp:",
                     "API error: " \o ErrorString(ans.err))>>
    ELSE <<>>

\* A Delete whose record is dropped whatever the handler reports.
DeleteHandlerAlwaysRemoves(st, fault) ==
    LET t == ResolveTimeout(st.Timeouts, "delete")
        params == DeleteParams(st)
        ans == FloatingIpDelete(params, fault)
    IN  IF HasError(t.diags)
        THEN Outcome(st, t.diags, 0, <<>>, NoAnswer)
        ELSE Outcome(NullState, DeleteMap(st, ans), t.duration,
                     <<[api |-> "FloatingIpDelete", params |-> params]>>, ans)

\* floatingIpResource.Delete: resp.State starts out as the prior state and
\* the state is removed when the handler returns without an error.
DeleteHandler(st, fault) ==
    LET t == ResolveTimeout(st.Timeouts, "delete")
        params == DeleteParams(st)
        ans == FloatingIpDelete(params, fault)
    IN  IF HasError(t.diags)
        THEN Outcome(st, t.diags, 0, <<>>, NoAnswer)
        ELSE Outcome(IF HasError(DeleteMap(st, ans)) THEN st ELSE NullState,
                     DeleteMap(st, ans), t.duration,
                     <<[api |-> "FloatingIpDelete", params |-> params]>>, ans)

\* resource.ImportStatePassthroughID: a state holding the id alone.
ImportState(id) ==
    [ID |-> StringValue(id), Name |-> Null, Description |-> Null,
     ProjectID |-> Null, IPPoolID |-> Null, IP |-> Null,
     TimeCreated |-> Null, TimeModified |-> Null, Timeouts |-> NoTimeouts]

----------------------------------------------------------------------------
(* The schema's plan modifiers, as the orchestrator consults them *)

RequiredAttrs == {"Name", "Description", "ProjectID"}
OptionalAttrs == {"IP", "IPPoolID"}
DeclaredAttrs == RequiredAttrs \cup OptionalAttrs \cup {"Timeouts"}

\* stringplanmodifier.UseStateForUnknown: the prior value for an unknown
\* planned value.
UseStateForUnknown(config, planned, prior) ==
    IF planned = Unknown /\ config # Unknown THEN prior ELSE planned

\* stringplanmodifier.RequiresReplace: the planned value differs from the
\* prior one.
RequiresReplace(config, planned, prior) == planned # prior

\* stringplanmodifier.RequiresReplaceIfConfigured: as RequiresReplace, and
\* the configuration sets the attribute.
RequiresReplaceIfConfigured(config, planned, prior) ==
    planned # prior /\ config # Null

\* The planned value of a declared attribute against a prior state: what
\* the configuration says, no attribute being both Optional and Computed.
PlannedValue(attr, cfg, st) ==
    IF attr \in OptionalAttrs
    THEN UseStateForUnknown(cfg[attr], cfg[attr], st[attr])
    ELSE cfg[attr]

\* The attributes whose planned value differs from the prior state.
DiffAttrs(cfg, st) == {a \in DeclaredAttrs : PlannedValue(a, cfg, st) # st[a]}

\* The attributes whose plan modifiers ask for replacement.
\* A schema in which every changed attribute, timeouts included, forces
\* replacement.
ReplaceAttrsOnAnyDiff(cfg, st) == DiffAttrs(cfg, st)

ReplaceAttrs(cfg, st) ==
    {a \in RequiredAttrs :
        RequiresReplace(cfg[a], PlannedValue(a, cfg, st), st[a])}
    \cup {a \in OptionalAttrs :
        RequiresReplaceIfConfigured(cfg[a], PlannedValue(a, cfg, st), st[a])}

\* Which handlers the orchestrator invokes for a configuration.
Route(cfg, st) ==
    IF st = NullState THEN "create"
    ELSE IF DiffAttrs(cfg, st) = {} THEN "noop"
    ELSE IF ReplaceAttrs(cfg, st) # {} THEN "replace"
    ELSE "update"

\* The planned state of an update: the declared attributes as planned, the
\* Computed ones unknown.
UpdatePlan(cfg, st) ==
    [PlanOf(cfg) EXCEPT !.IP = PlannedValue("IP", cfg, st),
                        !.IPPoolID = PlannedValue("IPPoolID", cfg, st)]

----------------------------------------------------------------------------
(* The state machine *)

Idle == [kind |-> "none", config |-> NullState]

Invocation(op, route, cfg, prior, nth, out) ==
    [op |-> op, route |-> route, config |-> cfg, prior |-> prior, nth |-> nth,
     timeout |-> out.Timeout, calls |-> out.Calls, err |-> out.Answer.err,
     obj |-> out.Answer.obj, diags |-> out.Diagnostics, result |-> out.State]

\* The orchestrator persists the response's state and the platform moves on.
Finish(op, route, cfg, nth, out, next) ==
    /\ state' = out.State
    /\ remote' = out.Answer.remote
    /\ nextId' = out.Answer.nextId
    /\ pending' = next
    /\ last' = Invocation(op, route, cfg, state, nth, out)

\* A floating IP that exists on the platform before the resource is managed.
Existing ==
    [Id |-> IdOf(1), Name |-> "lb-vip", Description |-> "load balancer VIP",
     ProjectId |-> "pid-1", Ip |-> "10.0.0.1", IpPoolId |-> "poolid-default",
     InstanceId |-> Null, TimeCreated |-> Tick(1), TimeModified |-> Tick(1)]

Init ==
    /\ state = NullState
    /\ \/ remote = {} /\ nextId = 1
       \/ remote = {Existing} /\ nextId = 2
    /\ pending = Idle
    /\ last = Invocation("none", "none", NullState, NullState, 0,
                         Outcome(NullState, <<>>, 0, <<>>, NoAnswer))

CanCreate == nextId <= MaxObjects

\* Apply of a configuration with no prior state: Create.
ApplyCreate ==
    \E cfg \in Configs, fault \in Faults :
        /\ pending = Idle
        /\ Route(cfg, state) = "create"
        /\ CanCreate
        /\ Finish("Create", "create", cfg, 1,
                  CreateHandler(PlanOf(cfg), fault), Idle)

\* Apply of a configuration whose diff asks for no replacement: Update.
ApplyUpdate ==
    \E cfg \in Configs :
        /\ pending = Idle
        /\ Route(cfg, state) = "update"
        /\ Finish("Update", "update", cfg, 1,
                  UpdateHandler(state, UpdatePlan(cfg, state)), Idle)

\* Apply of a configuration whose diff asks for replacement: Delete, and
\* Create once the record is gone.
ApplyReplace ==
    \E cfg \in Configs, fault \in Faults :
        /\ pending = Idle
        /\ Route(cfg, state) = "replace"
        /\ LET out == DeleteHandler(state, fault)
           IN  Finish("Delete", "replace", cfg, 1, out,
                      IF HasError(out.Diagnostics) THEN Idle
                      ELSE [kind |-> "create", config |-> cfg])

ReplaceCreate ==
    \E fault \in Faults :
        /\ pending.kind = "create"
        /\ CanCreate
        /\ Finish("Create", "replace", pending.config, 1,
                  CreateHandler(PlanOf(pending.config), fault), Idle)

\* Destroy of the resource: Delete.
Destroy ==
    \E fault \in Faults :
        /\ pending = Idle
        /\ state # NullState
        /\ Finish("Delete", "destroy", NullState, 1,
                  DeleteHandler(state, fault), Idle)

\* Delete invoked once more on the record it was just invoked on.
DeleteAgain ==
    \E fault \in Faults :
        /\ pending = Idle
        /\ last.op = "Delete" /\ last.nth = 1 /\ state = NullState
        /\ state' = DeleteHandler(last.prior, fault).State
        /\ remote' = DeleteHandler(last.prior, fault).Answer.remote
        /\ last' = Invocation("Delete", last.route, last.config, last.prior, 2,
                              DeleteHandler(last.prior, fault))
        /\ UNCHANGED <<nextId, pending>>

\* Refresh of the resource: Read.
Refresh ==
    \E fault \in Faults :
        /\ pending = Idle
        /\ state # NullState
        /\ Finish("Read", "refresh", NullState, 1, ReadHandler(state, fault), Idle)

\* Import of an identity: ImportState, then Read.
Import ==
    \E n \in 1..MaxObjects :
        /\ pending = Idle
        /\ state = NullState
        /\ state' = ImportState(IdOf(n))
        /\ pending' = [kind |-> "read", config |-> NullState]
        /\ last' = Invocation("ImportState", "import", NullState, state, 1,
                              Outcome(ImportState(IdOf(n)), <<>>, 0, <<>>, NoAnswer))
        /\ UNCHANGED <<remote, nextId>>

ImportRead ==
    \E fault \in Faults :
        /\ pending.kind = "read"
        /\ Finish("Read", "import", NullState, 1, ReadHandler(state, fault), Idle)

\* Out of band, the platform's object is deleted.
RemoteDelete ==
    \E o \in remote :
        /\ remote' = remote \ {o}
        /\ UNCHANGED <<state, nextId, pending, last>>

\* Out of band, the platform's object is attached to an instance.
RemoteAttach ==
    \E o \in remote, i \in Instances :
        /\ o.InstanceId = Null
        /\ remote' = (remote \ {o})
                        \cup {[o EXCEPT !.InstanceId = i, !.TimeModified = @ + 1]}
        /\ UNCHANGED <<state, nextId, pending, last>>

Next ==
    \/ ApplyCreate
    \/ ApplyUpdate
    \/ ApplyReplace
    \/ ReplaceCreate
    \/ Destroy
    \/ DeleteAgain
    \/ Refresh
    \/ Import
    \/ ImportRead
    \/ RemoteDelete
    \/ RemoteAttach

Spec == Init /\ [][Next]_vars

----------------------------------------------------------------------------
(* Properties *)

\* The last invocation issued its one remote call and got this answer.
Answered(op, errs) ==
    last.op = op /\ Len(last.calls) = 1 /\ last.err \in errs

OtherErrors == {"ServerError", "DeadlineExceeded", "Canceled", "InvalidRequest"}

\* An attribute of a persisted record; null when the record does not hold it.
StateAttr(st, a) == IF a \in DOMAIN st THEN st[a] ELSE Null

\* C1. Idempotent delete: a Delete that the platform answers with not-found
\* returns no error diagnostic and the record is gone; a Delete invoked a
\* second time on the record of a Delete that returned without error is
\* answered with not-found, unless the call itself fails, and returns no
\* error diagnostic.
C1_IdempotentDelete ==
    /\ Answered("Delete", {"NotFound"}) =>
          ~HasError(last.diags) /\ last.diags = <<>> /\ state = NullState
    /\ (last.op = "Delete" /\ last.nth = 2
            /\ last.err \notin {"ServerError", "DeadlineExceeded", "Canceled"}) =>
          Answered("Delete", {"NotFound"}) /\ ~HasError(last.diags)

C1_Witness ==
    /\ Answered("Delete", {"NotFound"})
    /\ last.nth = 2
    /\ last.diags = <<>>
    /\ last.calls[1].params.FloatingIp = last.prior.ID

\* C2. Drift removal: a Read of a record with an identity that the platform
\* answers with not-found removes the record, reports no error, and issued
\* its View once, for that identity.
C2_DriftRemoval ==
    Answered("Read", {"NotFound"}) =>
        /\ last.result = NullState
        /\ state = NullState
        /\ ~HasError(last.diags)
        /\ last.calls = <<[api |-> "FloatingIpView",
                           params |-> [FloatingIp |-> last.prior.ID]]>>

C2_Witness ==
    /\ Answered("Read", {"NotFound"})
    /\ last.route = "refresh"
    /\ last.prior.ID = IdOf(1)
    /\ last.prior.Name # Null
    /\ state = NullState

\* C3. Update always rejects: an Update yields exactly one diagnostic, an
\* error with summary "Error updating floatingIp", issues no remote call and
\* leaves the persisted state equal to the prior state.
C3_UpdateRejects ==
    last.op = "Update" =>
        /\ Len(last.diags) = 1
        /\ last.diags[1].severity = "Error"
        /\ last.diags[1].summary = "Error updating floatingIp"
        /\ last.calls = <<>>
        /\ state = last.prior
        /\ state # NullState

C3_Witness ==
    /\ last.op = "Update"
    /\ last.config.Timeouts # last.prior.Timeouts
    /\ state = last.prior

\* The attributes the schema declares immutable.
ImmutableAttrs == RequiredAttrs \cup OptionalAttrs

\* C4. Immutability enforcement: a configuration that differs from the prior
\* state on name, description, project, ip or ip pool (an ip or pool taken
\* out of the configuration included) is never routed to Update.
C4_ImmutableNeverUpdates ==
    last.op = "Update" =>
        \A a \in ImmutableAttrs : last.config[a] = last.prior[a]

\* C4, on the attributes whose modifier is RequiresReplace: those are never
\* routed to Update, and a configured ip or pool that differs is not either.
C4_ConfiguredNeverUpdates ==
    last.op = "Update" =>
        /\ \A a \in RequiredAttrs : last.config[a] = last.prior[a]
        /\ \A a \in OptionalAttrs :
              last.config[a] # last.prior[a] => last.config[a] = Null

\* C5. Read reflects remote truth: after a Read that got an object, every
\* Computed field of the persisted record (identity, project identity, ip,
\* ip-pool identity, bound-instance identity, created and modified
\* timestamps) equals the object's.
C5_ReadReflectsRemote ==
    Answered("Read", {NoErr}) =>
        /\ state.ID = last.obj.Id
        /\ state.ProjectID = last.obj.ProjectId
        /\ state.IP = last.obj.Ip
        /\ state.IPPoolID = last.obj.IpPoolId
        /\ StateAttr(state, "InstanceID") = last.obj.InstanceId
        /\ state.TimeCreated = TimeString(last.obj.TimeCreated)
        /\ state.TimeModified = TimeString(last.obj.TimeModified)

\* C5, on the fields the record holds: all of them but the bound-instance
\* identity equal the object's, name and description included.
C5_ReadReflectsHeldFields ==
    Answered("Read", {NoErr}) =>
        /\ state.ID = last.obj.Id
        /\ state.Name = last.obj.Name
        /\ state.Description = last.obj.Description
        /\ state.ProjectID = last.obj.ProjectId
        /\ state.IP = last.obj.Ip
        /\ state.IPPoolID = last.obj.IpPoolId
        /\ state.TimeCreated = TimeString(last.obj.TimeCreated)
        /\ state.TimeModified = TimeString(last.obj.TimeModified)

\* C6. Create fails atomically: a Create whose remote call returned an error,
\* or whose timeout did not resolve, returns an error diagnostic, persists
\* nothing and assigns no identity.
C6_CreateFailsAtomically ==
    (last.op = "Create" /\ (last.err # NoErr \/ last.calls = <<>>)) =>
        /\ HasError(last.diags)
        /\ last.result = NullState
        /\ state = NullState

C6_Witness ==
    /\ Answered("Create", {"ServerError"})
    /\ HasError(last.diags)
    /\ state = NullState

\* C7. Create keeps the declared fields: the one remote Create carries the
\* plan's name, description and project reference, and ip and pool as the
\* empty string when not configured; on success the persisted record has a
\* non-empty identity and the object's timestamps, and name, description and
\* project reference as declared.
C7_CreateKeepsDeclared ==
    last.op = "Create" =>
        /\ last.calls # <<>> =>
              last.calls =
                <<[api |-> "FloatingIpCreate",
                   params |->
                     [Project |-> last.config.ProjectID,
                      Body |->
                        [Name |-> last.config.Name,
                         Description |-> last.config.Description,
                         Ip |-> IF last.config.IP = Null THEN ""
                                ELSE last.config.IP,
                         Pool |-> IF last.config.IPPoolID = Null THEN ""
                                  ELSE last.config.IPPoolID]]]>>
        /\ ~HasError(last.diags) =>
              /\ state.ID \notin {"", Null, Unknown}
              /\ state.ID = last.obj.Id
              /\ state.TimeCreated = TimeString(last.obj.TimeCreated)
              /\ state.TimeModified = TimeString(last.obj.TimeModified)
              /\ state.Name = last.config.Name
              /\ state.Description = last.config.Description
              /\ state.ProjectID = last.config.ProjectID

C7_Witness ==
    /\ Answered("Create", {NoErr})
    /\ last.config.IP = Null /\ last.config.IPPoolID = Null
    /\ last.config.ProjectID = "proj-2"
    /\ last.calls[1].params.Body.Ip = "" /\ last.calls[1].params.Body.Pool = ""
    /\ state.ProjectID = "proj-2" /\ last.obj.ProjectId = "pid-2"

\* C8. Create populates the full Computed State: after a successful Create
\* the persisted record holds the ip and the ip-pool identity of the created
\* object, also when they were not configured.
C8_CreatePopulatesComputed ==
    Answered("Create", {NoErr}) =>
        /\ state.IP = last.obj.Ip
        /\ state.IPPoolID = last.obj.IpPoolId

\* C9. Read leaves the state alone on an error other than not-found: it
\* returns an error diagnostic, removes nothing, and the persisted state is
\* the prior state.
C9_ReadErrorKeepsState ==
    Answered("Read", OtherErrors) =>
        /\ HasError(last.diags)
        /\ state # NullState
        /\ state = last.prior

C9_Witness ==
    /\ Answered("Read", {"ServerError"})
    /\ last.route = "refresh"
    /\ state = last.prior
    /\ \E o \in remote : o.Id = state.ID /\ o.Ip # state.IP

\* C10. Delete keeps the record on an error other than not-found: it returns
\* an error diagnostic and the record stays as it was, holding the identity
\* the remote Delete was issued for, which every Delete sends.
C10_DeleteErrorKeepsRecord ==
    /\ Answered("Delete", OtherErrors) =>
          /\ HasError(last.diags)
          /\ state = last.prior
          /\ state.ID = last.calls[1].params.FloatingIp
    /\ (last.op = "Delete" /\ last.calls # <<>>) =>
          last.calls = <<[api |-> "FloatingIpDelete",
                          params |-> [FloatingIp |-> last.prior.ID]]>>

C10_Witness ==
    /\ Answered("Delete", {"InvalidRequest"})
    /\ state = last.prior
    /\ HasError(last.diags)

\* The handlers the orchestrator invokes with a request of its own.
Handlers == {"Create", "Read", "Update", "Delete"}

\* The timeout an invocation has configured for its own operation: Create
\* and Update read the plan, Read and Delete the prior state.
OwnTimeout(inv) ==
    CASE inv.op = "Create" -> inv.config.Timeouts.create
      [] inv.op = "Update" -> inv.config.Timeouts.update
      [] inv.op = "Read" -> inv.prior.Timeouts.read
      [] inv.op = "Delete" -> inv.prior.Timeouts.delete
      [] OTHER -> Null

\* The duration a configured timeout stands for, the default when absent.
ExpectedTimeout(v) ==
    IF v = Null THEN defaultTimeout ELSE IF v = "30s" THEN 30 ELSE -1

\* C11. Every lifecycle operation resolves its own timeout: the deadline of
\* a Create, Read, Update or Delete invocation is the duration the
\* invocation's own timeout is configured with, the default when it is
\* absent, whatever the other operations' timeouts are.
C11_OwnTimeoutResolved ==
    (last.op \in Handlers /\ OwnTimeout(last) # "bad") =>
        last.timeout = ExpectedTimeout(OwnTimeout(last))

\* C11, on the handlers that set a deadline: Create, Read and Delete resolve
\* their own timeout.
C11_CreateReadDeleteResolveOwn ==
    (last.op \in Handlers \ {"Update"} /\ OwnTimeout(last) # "bad") =>
        last.timeout = ExpectedTimeout(OwnTimeout(last))

\* C12. Validation precedes the remote call: a Create, Read or Delete whose
\* own timeout is no duration ends with the timeout's error diagnostic,
\* issues no remote call, and leaves the platform and the persisted state
\* as they were.
C12_ValidationBeforeCall ==
    [][(last' # last /\ last'.op \in {"Create", "Read", "Delete"}
            /\ OwnTimeout(last') = "bad") =>
          /\ last'.calls = <<>>
          /\ Len(last'.diags) = 1
          /\ last'.diags[1].severity = "Error"
          /\ last'.diags[1].summary = "Timeout Cannot Be Parsed"
          /\ remote' = remote
          /\ nextId' = nextId
          /\ state' = state]_vars

C12_Witness ==
    /\ last.op = "Delete"
    /\ last.prior.Timeouts.delete = "bad"
    /\ last.calls = <<>>
    /\ HasError(last.diags)
    /\ state = last.prior
    /\ \E o \in remote : o.Id = state.ID

\* The errors of a deadline that elapsed or a context that was cancelled,
\* and the errors of a remote API failure.
CancelErrors == {"DeadlineExceeded", "Canceled"}
GenericErrors == {"ServerError", "InvalidRequest"}

\* The diagnostics the operation of an invocation gives, on the same
\* request, for a remote API failure.
GenericDiags(inv) ==
    {CASE inv.op = "Create" ->
            CreateMap(PlanOf(inv.config), Answer(e, NullState, remote, nextId)).Diagnostics
       [] inv.op = "Read" ->
            ReadMap(inv.prior, Answer(e, NullState, remote, nextId)).Diagnostics
       [] inv.op = "Delete" ->
            DeleteMap(inv.prior, Answer(e, NullState, remote, nextId))
       [] OTHER -> <<>>
     : e \in GenericErrors}

C14_IdentityStable ==
    [][(state # NullState /\ state' # NullState) =>
          /\ state'.ID = state.ID
          /\ state'.ID \notin {"", Null, Unknown}]_vars

C14_Witness ==
    /\ Answered("Read", {NoErr})
    /\ last.route = "import"
    /\ last.prior = ImportState(IdOf(1))
    /\ state.ID = IdOf(1)
    /\ state.Name # Null

\* The records that share an identity (and the timeouts) with a record and
\* differ from it in name or project reference.
SameIdentity(st) ==
    {[st EXCEPT !.Name = n, !.ProjectID = p] :
        n \in Names \cup {Null}, p \in ProjectRefs \cup {"pid-2", Null}}

\* The attributes Read takes from the remote object.
RemoteAttrs ==
    {"ID", "Name", "Description", "ProjectID", "IP", "IPPoolID",
     "TimeCreated", "TimeModified"}

\* C15. Read is keyed by identity alone: every record that shares the
\* identity of the record a Read was invoked on, whatever its name and
\* project reference, makes Read issue the same View request and, on the
\* same answer, persist the same remote-derived fields.
C15_ReadKeyedByIdentity ==
    (last.op = "Read" /\ Len(last.calls) = 1) =>
        \A alt \in SameIdentity(last.prior) :
            /\ ViewParams(alt) = last.calls[1].params
            /\ last.calls[1].params.FloatingIp = last.prior.ID
            /\ last.err = NoErr =>
                  \A a \in RemoteAttrs :
                      ReadMap(alt, Answer(NoErr, last.obj, remote, nextId)).State[a]
                          = last.result[a]

C15_Witness ==
    /\ Answered("Read", {NoErr})
    /\ last.prior.ProjectID = "proj-2"
    /\ last.result.ProjectID = "pid-2"
    /\ Cardinality(SameIdentity(last.prior)) > 1

\* The remote call of each handler.
ApiOf(op) ==
    CASE op = "Create" -> "FloatingIpCreate"
      [] op = "Read" -> "FloatingIpView"
      [] op = "Delete" -> "FloatingIpDelete"
      [] OTHER -> "none"

\* C16. Single remote call, no retry: an invocation of Create, Read or
\* Delete issues at most one remote call, its own, and Update none; an
\* invocation that got an error issued that one call only; a Create that
\* succeeded issued exactly one remote Create, and the platform holds
\* exactly one object more, the one the record names.
C16_SingleCallNoRetry ==
    /\ [](/\ Len(last.calls) <= 1
          /\ \A i \in 1..Len(last.calls) : last.calls[i].api = ApiOf(last.op)
          /\ last.op \notin {"Create", "Read", "Delete"} => last.calls = <<>>
          /\ last.err # NoErr => Len(last.calls) = 1
          /\ (last.op = "Create" /\ ~HasError(last.diags)) => Len(last.calls) = 1)
    /\ [][(last' # last /\ last'.op = "Create" /\ ~HasError(last'.diags)) =>
            /\ last'.obj \notin remote
            /\ remote' = remote \cup {last'.obj}
            /\ Cardinality(remote') = Cardinality(remote) + 1
            /\ state'.ID = last'.obj.Id]_vars

C16_Witness ==
    /\ Answered("Create", {NoErr})
    /\ last.route = "replace"
    /\ state.ID = IdOf(2)
    /\ Cardinality(remote) = 1

\* The three ways an invocation can end.
Snapshot(inv) == ~HasError(inv.diags) /\ inv.result # NullState
Removal(inv) == ~HasError(inv.diags) /\ inv.result = NullState
Failure(inv) == HasError(inv.diags) /\ inv.result = inv.prior

\* C17. Every invocation ends in a classified outcome: a handler invocation
\* is one step that ends with the answer of its remote call or with the
\* deadline it set, in exactly one of a state snapshot, a removal or a
\* non-empty list of error diagnostics that leaves the record as it was; no
\* remote error is dropped; a removal comes only from a Read that was told
\* the object is gone or from a Delete without error, never from Create or
\* Update.
C17_ClassifiedOutcome ==
    last.op \in Handlers =>
        /\ Cardinality({k \in {"snapshot", "removal", "failure"} :
              \/ k = "snapshot" /\ Snapshot(last)
              \/ k = "removal" /\ Removal(last)
              \/ k = "failure" /\ Failure(last)}) = 1
        /\ \A i \in 1..Len(last.diags) : last.diags[i].severity = "Error"
        /\ (last.err # NoErr /\ ~HasError(last.diags)) =>
              is404(last.err) /\ last.op \in {"Read", "Delete"}
        /\ last.err = "DeadlineExceeded" => last.timeout > 0
        /\ Removal(last) =>
              \/ last.op = "Read" /\ is404(last.err)
              \/ last.op = "Delete"
        /\ last.op = "Create" => (Snapshot(last) <=> last.err = NoErr /\ Len(last.calls) = 1)
        /\ last.op = "Update" => Failure(last)
        /\ last.op = "Delete" => Removal(last) \/ Failure(last)

C17_Witness ==
    /\ Answered("Create", {"DeadlineExceeded"})
    /\ Failure(last)
    /\ last.prior = NullState
    /\ last.timeout > 0

\* A successful Read that follows a successful Create at once, the created
\* object unchanged on the platform.
ReadAfterCreate ==
    /\ last.op = "Create" /\ ~HasError(last.diags)
    /\ state = last.result
    /\ last'.op = "Read" /\ Len(last'.calls) = 1 /\ last'.err = NoErr
    /\ last'.prior = state
    /\ last'.obj = last.obj
    /\ remote' = remote

\* C18. Create-then-Read is stable: when Create succeeds and Read then runs
\* while the remote object is unchanged, the state Read persists equals the
\* state Create persisted in every field, ip, ip pool and project reference
\* included.
C18_CreateThenReadStable ==
    [][ReadAfterCreate => state' = state]_vars

\* What does hold: the first Read changes nothing but ip, ip pool and project
\* reference, and it always changes the ip pool, which Create left as
\* declared.
C18_CreateThenReadDiffers ==
    [][ReadAfterCreate =>
          /\ \A a \in DOMAIN state \ {"IP", "IPPoolID", "ProjectID"} : state'[a] = state[a]
          /\ state.IPPoolID = last.config.IPPoolID
          /\ state'.IPPoolID = last.obj.IpPoolId]_vars

\* The configurations that differ from the record in the timeouts block only.
TimeoutsOnlyChange(cfg, st) == st # NullState /\ DiffAttrs(cfg, st) = {"Timeouts"}

\* C19. Timeouts-only change: when the new configuration differs from the
\* prior state only in the timeouts block, nothing forces replacement, the
\* change routes to Update, Update fails with its diagnostic and the
\* persisted state keeps the old timeouts; and no step changes the timeouts
\* of a record that exists before and after it: every Read, Update or
\* Delete that leaves a record leaves the timeouts it found.
C19_TimeoutsOnlyChange ==
    /\ [](\A cfg \in Configs :
            TimeoutsOnlyChange(cfg, state) =>
                /\ ReplaceAttrs(cfg, state) = {}
                /\ Route(cfg, state) = "update"
                /\ HasError(UpdateHandler(state, UpdatePlan(cfg, state)).Diagnostics)
                /\ UpdateHandler(state, UpdatePlan(cfg, state)).State.Timeouts
                      = state.Timeouts)
    /\ [](last.op = "Update" =>
            /\ state = last.prior
            /\ HasError(last.diags)
            /\ last.diags[1].summary = "Error updating floatingIp")
    /\ []((last.op \in {"Read", "Update", "Delete"} /\ last.result # NullState) =>
            last.result.Timeouts = last.prior.Timeouts)
    /\ [][(state # NullState /\ state' # NullState /\ state'.ID = state.ID) =>
            state'.Timeouts = state.Timeouts]_vars

C19_Witness ==
    /\ last.op = "Update"
    /\ TimeoutsOnlyChange(last.config, last.prior)
    /\ last.config.Timeouts # state.Timeouts
    /\ state.Timeouts = last.prior.Timeouts

\* A successful Read that follows a successful Read of the same, unchanged
\* object at once.
ReadAfterRead ==
    /\ Answered("Read", {NoErr})
    /\ state = last.result
    /\ last'.op = "Read" /\ Len(last'.calls) = 1 /\ last'.err = NoErr
    /\ last'.prior = state
    /\ last'.obj = last.obj

\* C20. Read preserves non-remote fields and is idempotent: a successful
\* Read never changes the timeouts stored in the record, nor any field the
\* object does not carry, and reading the same object again persists the
\* same state.
C20_ReadPreservesAndIdempotent ==
    /\ [](Answered("Read", {NoErr}) =>
            /\ last.result.Timeouts = last.prior.Timeouts
            /\ \A a \in DOMAIN last.prior \ RemoteAttrs : last.result[a] = last.prior[a]
            /\ DOMAIN last.result = DOMAIN last.prior
            /\ ReadMap(last.result, Answer(NoErr, last.obj, remote, nextId)).State
                  = last.result)
    /\ [][ReadAfterRead => state' = state]_vars

C20_Witness ==
    /\ Answered("Read", {NoErr})
    /\ last.nth = 1
    /\ last.prior = last.result
    /\ last.result.Timeouts # NoTimeouts
    /\ last.result.IP # Null

====
